---- MODULE Spec2Model ----
(***************************************************************************)
(* Model of src/app.py: the Dash callback update_visuals(region) and the   *)
(* module-level load of the incident table it reads.                       *)
(*                                                                         *)
(* A table is a sequence of rows; a row is a record of the CSV columns the *)
(* callback uses.  A missing value (pandas NaN) of a text column is the    *)
(* string NaN, a missing number (the max of an empty column, an empty     *)
(* "Incident ID" cell) is NaNValue.  The en dash of the bucket labels is   *)
(* written "-".  The model covers the data steps of the callback; the      *)
(* plotly calls between them (lines 82-85, 89-91, 94-96, 103-107, 110-112, *)
(* 118-122) only read the frames computed here and are not modelled.       *)
(***************************************************************************)
EXTENDS Integers, Sequences, FiniteSets

VARIABLES df, observed, simd, simd_order, region, raised, dff, max_cas, bins,
          labels, sb_data, sb_grouped, tree_grouped, heatdata, trend,
          yearwise, actor, top_country, first

vars == <<df, observed, simd, simd_order, region, raised, dff, max_cas, bins,
          labels, sb_data, sb_grouped, tree_grouped, heatdata, trend,
          yearwise, actor, top_country, first>>

(***************************************************************************)
(* Bounds of the model.                                                    *)
(***************************************************************************)
MaxRows == 2
MaxBinnerRows == 2
MaxRepeatRows == 2
MinCountries == 16
MaxCountries == 18
MaxDoubled == 2
DoubledAmong == 6

(***************************************************************************)
(* Values.                                                                 *)
(***************************************************************************)
NaN == "NaN"
None == "None"
NaNValue == -1

\* Every text value of the model, in Python's string order (the order
\* groupby sorts its keys in).
Alphabet == <<"A", "Afghanistan", "Ambush", "Brazil", "Chad", "DR Congo",
              "Egypt", "France", "Ghana", "Haiti", "IED", "Italy", "Kenya",
              "Libya", "Mali", "Nepal", "Non-state", "Oman", "Peru", "Raid",
              "Shooting", "Somalia", "State", "Syria", "Turkey", "Unknown",
              "Yemen", "Z", "Zambia">>

Rank(s) == CHOOSE i \in 1..Len(Alphabet) : Alphabet[i] = s

Range(s) == {s[i] : i \in 1..Len(s)}

Last(s) == s[Len(s)]

RECURSIVE SumSeq(_)
SumSeq(s) == IF s = <<>> THEN 0 ELSE s[1] + SumSeq(Tail(s))

\* The elements of S as a sequence, ascending in the integer key k[x] (keys
\* are distinct): the order in which groupby(sort=True) lists its groups.
RECURSIVE SortSet(_, _)
SortSet(S, k) ==
    IF S = {} THEN <<>>
    ELSE LET m == CHOOSE x \in S : \A y \in S \ {x} : k[x] < k[y]
         IN <<m>> \o SortSet(S \ {m}, k)

(***************************************************************************)
(* Loading (lines 9-12).                                                   *)
(***************************************************************************)
RawRegions == {"A", NaN}
Countries == {"Italy", "Kenya"}
Casualties == {0, 1, 3}
\* An "Incident ID" cell: a number, or empty.
IncidentIDs == {1, NaNValue}
WideCasualties == {0, 1, 2, 5, 6, 10, 11, 20, 21, 50, 51, 100, 101, 200, 201,
                   500, 501, 1000, 1001}

\* The remaining columns of a CSV line, drawn together.
Profiles ==
    { [date |-> d.date, means |-> d.means, context |-> d.context,
       actor |-> d.actor, affected |-> d.affected, Incident_ID |-> n] :
        d \in { [date |-> <<2020, 1, 5>>, means |-> "Shooting",
                 context |-> "Ambush", actor |-> "State", affected |-> 2],
                [date |-> <<2020, 1, 20>>, means |-> NaN,
                 context |-> "Ambush", actor |-> "Non-state", affected |-> 0],
                [date |-> <<2019, 12, 31>>, means |-> "IED",
                 context |-> "Raid", actor |-> "State", affected |-> 1] },
        n \in IncidentIDs }

CsvLine(reg, c, cas, p) ==
    [Incident_ID |-> p.Incident_ID, Region |-> reg, Country |-> c,
     total_casualties |-> cas, date |-> p.date,
     means |-> p.means, context |-> p.context, actor |-> p.actor,
     affected |-> p.affected]

CsvLines == {CsvLine(reg, c, cas, p) : reg \in RawRegions, c \in Countries,
                                       cas \in Casualties, p \in Profiles}

OneProfile == [date |-> <<2020, 1, 5>>, means |-> "Shooting",
               context |-> "Ambush", actor |-> "State", affected |-> 2,
               Incident_ID |-> 1]

\* Lines that differ in the casualties (over the whole ladder) and the region.
BinnerCsvLines ==
    {CsvLine("A", "Italy", cas, OneProfile) : cas \in WideCasualties}
    \cup {CsvLine(NaN, "Italy", cas, OneProfile) : cas \in Casualties}

\* Lines that differ in the region, the country and the casualties.
RepeatCsvLines ==
    {CsvLine(reg, c, cas, OneProfile) : reg \in RawRegions, c \in Countries,
                                       cas \in Casualties}

SeqsUpTo(S, n) == UNION {[1..k -> S] : k \in 0..n}

\* Files over many countries, all of region "A": one line for each of the
\* first n countries, and a second line for the countries D, which are
\* among the first DoubledAmong.
CountryList == <<"Afghanistan", "Brazil", "Chad", "DR Congo", "Egypt",
                 "France", "Ghana", "Haiti", "Italy", "Kenya", "Libya", "Mali",
                 "Nepal", "Oman", "Peru", "Somalia", "Syria", "Turkey",
                 "Yemen", "Zambia">>

InsightCsv(n, D) ==
    LET second == SortSet(D, [d \in D |-> d])
    IN [i \in 1..n |-> CsvLine("A", CountryList[i], 3, OneProfile)]
       \o [k \in 1..Len(second) |->
              CsvLine("A", CountryList[second[k]], 3, OneProfile)]

InsightCsvs ==
    UNION {{InsightCsv(n, D) :
               D \in {E \in SUBSET (1..DoubledAmong) :
                         Cardinality(E) <= MaxDoubled}} :
           n \in MinCountries..MaxCountries}

\* df["Region"].fillna("Unknown")
fillna(v) == IF v = NaN THEN "Unknown" ELSE v

\* df["date"].dt.year
year(d) == d[1]

\* read_csv and the three column assignments after it: the row of line i.
LoadRow(line, i) ==
    [id |-> i, Incident_ID |-> line.Incident_ID,
     Region |-> fillna(line.Region), Country |-> line.Country,
     total_casualties |-> line.total_casualties, date |-> line.date,
     year |-> year(line.date), means |-> line.means, context |-> line.context,
     actor |-> line.actor, affected |-> line.affected]

Load(csv) == [i \in 1..Len(csv) |-> LoadRow(csv[i], i)]

(***************************************************************************)
(* Region filter (lines 68-70).                                            *)
(***************************************************************************)
\* Python's truth value of the callback's argument: None and "" are false.
Truthy(r) == r \notin {None, ""}

RegionFilter(t, r) ==
    IF Truthy(r) THEN SelectSeq(t, LAMBDA x : x.Region = r) ELSE t

\* The module-level table after a call: the callback works on df.copy().
TableAfterCall(t, r) == t

(***************************************************************************)
(* Casualty binner (lines 72-80).                                          *)
(***************************************************************************)
Ladder == <<0, 1, 5, 10, 20, 50, 100, 200, 500, 1000>>

LabelList == <<"1", "2-5", "6-10", "11-20", "21-50", "51-100", "101-200",
               "201-500", "501-1000", "1000+">>

\* dff[dff["total_casualties"] > 0]
Positive(t) == SelectSeq(t, LAMBDA x : x.total_casualties > 0)

\* A maximum kept from the call before when that one was greater.
MaxKept(t) ==
    LET now == IF t = <<>> THEN NaNValue
               ELSE CHOOSE m \in {t[i].total_casualties : i \in 1..Len(t)} :
                        \A i \in 1..Len(t) : t[i].total_casualties <= m
    IN IF max_cas > now THEN max_cas ELSE now

\* Series.max(): NaN for an empty column.
Max(t) ==
    IF t = <<>> THEN NaNValue
    ELSE CHOOSE m \in {t[i].total_casualties : i \in 1..Len(t)} :
             \A i \in 1..Len(t) : t[i].total_casualties <= m

\* b <= m and b < m in Python: every comparison with NaN is False.
Leq(b, m) == m # NaNValue /\ b <= m
Lt(b, m) == m # NaNValue /\ b < m

\* s[:k] in Python.
Slice(s, k) ==
    LET stop == IF k < 0 THEN (IF Len(s) + k < 0 THEN 0 ELSE Len(s) + k)
                ELSE (IF k > Len(s) THEN Len(s) ELSE k)
    IN SubSeq(s, 1, stop)

\* Bins without the closing boundary.
BinsNoClosing(m) == SelectSeq(Ladder, LAMBDA b : Leq(b, m))

Bins(m) ==
    LET kept == SelectSeq(Ladder, LAMBDA b : Leq(b, m))
    IN IF kept # <<>> /\ Lt(Last(kept), m) THEN Append(kept, m + 1) ELSE kept

\* Labels cut one too long.
LabelsOneMore(b) == Slice(LabelList, Len(b))

Labels(b) == Slice(LabelList, Len(b) - 1)

\* bins.searchsorted(x, side="left"): how many boundaries are below x.
searchsorted(b, x) == Cardinality({i \in 1..Len(b) : b[i] < x})

\* cut with right=False: intervals closed on the left.
cut_left_closed(x, b, l) ==
    LET id == Cardinality({i \in 1..Len(b) : b[i] <= x})
    IN IF id = 0 \/ id = Len(b) THEN NaN ELSE l[id]

\* pd.cut(..., right=True, include_lowest=True) of one value: its label, or
\* NaN when the value lies in no interval.
cut(x, b, l) ==
    LET id == IF x = b[1] THEN 1 ELSE searchsorted(b, x)
    IN IF id = 0 \/ id = Len(b) THEN NaN ELSE l[id]

\* What pd.cut raises before it labels anything: bins[0] of no boundaries,
\* then a label list that is not one shorter than the boundaries.
cut_raises(b, l) ==
    IF b = <<>> THEN "IndexError"
    ELSE IF Len(l) # Len(b) - 1 THEN "ValueError" ELSE "none"

\* sb_data with its casualty_range column.
Bucketed(t, b, l) ==
    [i \in 1..Len(t) |->
        [id |-> t[i].id, Region |-> t[i].Region,
         total_casualties |-> t[i].total_casualties,
         casualty_range |-> cut(t[i].total_casualties, b, l)]]

(***************************************************************************)
(* Aggregators (lines 81-117).                                             *)
(***************************************************************************)
LabelIndex(lab) == CHOOSE i \in 1..Len(LabelList) : LabelList[i] = lab

\* groupby(["casualty_range", "Region"]).size(): casualty_range is
\* categorical, so with observed=False every label of the cut is paired with
\* every region of sb_data, also at count 0; rows without a label are dropped.
SbGrouped(sb, l, obs) ==
    LET seen == {<<sb[i].casualty_range, sb[i].Region>> : i \in
                    {j \in 1..Len(sb) : sb[j].casualty_range # NaN}}
        all == Range(l) \X {sb[i].Region : i \in 1..Len(sb)}
        keys == IF obs THEN seen ELSE all
        k == [g \in keys |-> LabelIndex(g[1]) * 100 + Rank(g[2])]
        row(g) == [casualty_range |-> g[1], Region |-> g[2],
                   count |-> Cardinality({i \in 1..Len(sb) :
                                             /\ sb[i].casualty_range = g[1]
                                             /\ sb[i].Region = g[2]})]
        order == SortSet(keys, k)
    IN [i \in 1..Len(order) |-> row(order[i])]

\* agg "count" of the "Incident ID" column: the cells of t that are not empty.
count(t) == Cardinality({i \in 1..Len(t) : t[i].Incident_ID # NaNValue})

\* Rows with both taxonomy columns, grouped by the pair.
TreeGrouped(t) ==
    LET treedata == SelectSeq(t, LAMBDA x : x.means # NaN /\ x.context # NaN)
        keys == {<<treedata[i].means, treedata[i].context>> :
                    i \in 1..Len(treedata)}
        k == [g \in keys |-> Rank(g[1]) * 100 + Rank(g[2])]
        row(g) == [means |-> g[1], context |-> g[2],
                   count |-> Cardinality({i \in 1..Len(treedata) :
                                             /\ treedata[i].means = g[1]
                                             /\ treedata[i].context = g[2]})]
        order == SortSet(keys, k)
    IN [i \in 1..Len(order) |-> row(order[i])]

\* groupby("Country").size(); a missing key is dropped.
HeatData(t) ==
    LET keys == {t[i].Country : i \in 1..Len(t)} \ {NaN}
        k == [g \in keys |-> Rank(g)]
        row(g) == [Country |-> g,
                   count |-> Cardinality({i \in 1..Len(t) : t[i].Country = g})]
        order == SortSet(keys, k)
    IN [i \in 1..Len(order) |-> row(order[i])]

\* dt.to_period("M") of a date and to_timestamp() of a monthly period.
to_period(d) == <<d[1], d[2]>>
to_timestamp(p) == <<p[1], p[2], 1>>

Trend(t) ==
    LET keys == {to_period(t[i].date) : i \in 1..Len(t)}
        k == [g \in keys |-> g[1] * 100 + g[2]]
        in(g) == SelectSeq(t, LAMBDA x : to_period(x.date) = g)
        row(g) == [date |-> to_timestamp(g),
                   Incident_ID |-> count(in(g)),
                   total_casualties |->
                       SumSeq([i \in 1..Len(in(g)) |->
                                  in(g)[i].total_casualties])]
        order == SortSet(keys, k)
    IN [i \in 1..Len(order) |-> row(order[i])]

YearWise(t) ==
    LET keys == {<<t[i].year, t[i].Region>> : i \in 1..Len(t)}
        k == [g \in keys |-> g[1] * 100 + Rank(g[2])]
        in(g) == SelectSeq(t, LAMBDA x : x.year = g[1] /\ x.Region = g[2])
        row(g) == [year |-> g[1], Region |-> g[2],
                   Incident_ID |-> count(in(g))]
        order == SortSet(keys, k)
    IN [i \in 1..Len(order) |-> row(order[i])]

Actor(t) ==
    LET keys == {t[i].actor : i \in 1..Len(t)} \ {NaN}
        k == [g \in keys |-> Rank(g)]
        in(g) == SelectSeq(t, LAMBDA x : x.actor = g)
        row(g) == [actor |-> g,
                   Total_affected |->
                       SumSeq([i \in 1..Len(in(g)) |-> in(g)[i].affected]),
                   Incident_ID |-> count(in(g))]
        order == SortSet(keys, k)
    IN [i \in 1..Len(order) |-> row(order[i])]

(***************************************************************************)
(* Insight (lines 124-125).                                                *)
(***************************************************************************)
\* sort_values' default kind is "quicksort", which is not stable: the order
\* of equal counts is the numpy build's.  A build either runs npysort's
\* generic aquicksort, modelled here step by step, or dispatches the sort to
\* a SIMD routine (x86-simd-sort on AVX-512/AVX2 builds), of which only the
\* contract is modelled: a fixed function of the keys that sorts them.
\*
\* The generic aquicksort: the permutation p of the positions of v is sorted
\* in place, a range of more than SMALL_QUICKSORT + 1 positions by a
\* median-of-three partition, a shorter one by insertion.  The switch to
\* heapsort after 2 * floor(log2(n)) nested partitions is not reached at the
\* sizes here.
SMALL_QUICKSORT == 16

Swap(p, i, j) == [p EXCEPT ![i] = p[j], ![j] = p[i]]

\* if (less(v[*a], v[*b])) INTP_SWAP(*a, *b)
SwapIfLess(v, p, a, b) == IF v[p[a]] < v[p[b]] THEN Swap(p, a, b) ELSE p

\* The partition loop: pi runs up past the keys below the pivot vp, pj down
\* past those above it, and the two positions are swapped until they meet.
RECURSIVE Hoare(_, _, _, _, _)
Hoare(v, p, vp, pi, pj) ==
    LET i == CHOOSE k \in (pi + 1)..Len(p) :
                 /\ ~(v[p[k]] < vp)
                 /\ \A m \in (pi + 1)..(k - 1) : v[p[m]] < vp
        j == CHOOSE k \in 1..(pj - 1) :
                 /\ ~(vp < v[p[k]])
                 /\ \A m \in (k + 1)..(pj - 1) : vp < v[p[m]]
    IN IF i >= j THEN <<p, i>> ELSE Hoare(v, Swap(p, i, j), vp, i, j)

\* One partition of pl..pr: the permutation after it and the pivot's place.
Partition(v, p, pl, pr) ==
    LET pm == pl + ((pr - pl) \div 2)
        p1 == SwapIfLess(v, p, pm, pl)
        p2 == SwapIfLess(v, p1, pr, pm)
        p3 == SwapIfLess(v, p2, pm, pl)
        vp == v[p3[pm]]
        p4 == Swap(p3, pm, pr - 1)
        met == Hoare(v, p4, vp, pl, pr - 1)
    IN <<Swap(met[1], met[2], pr - 1), met[2]>>

\* The insertion sort of pl..pr, from position pi on.
RECURSIVE Insertion(_, _, _, _, _)
Insertion(v, p, pl, pi, pr) ==
    IF pi > pr THEN p
    ELSE LET vi == p[pi]
             stay == {k \in pl..(pi - 1) : ~(v[vi] < v[p[k]])}
             pj == IF stay = {} THEN pl
                   ELSE 1 + CHOOSE k \in stay : \A m \in stay : m <= k
             q == [k \in 1..Len(p) |->
                      IF k = pj THEN vi
                      ELSE IF k > pj /\ k <= pi THEN p[k - 1] ELSE p[k]]
         IN Insertion(v, q, pl, pi + 1, pr)

RECURSIVE aquicksort(_, _, _, _)
aquicksort(v, p, pl, pr) ==
    IF pr - pl > SMALL_QUICKSORT
    THEN LET s == Partition(v, p, pl, pr)
         IN aquicksort(v, aquicksort(v, s[1], pl, s[2] - 1), s[2] + 1, pr)
    ELSE Insertion(v, p, pl, pl + 1, pr)

\* argsort(kind="quicksort") on a build without the SIMD dispatch.
argsort(v) == aquicksort(v, [i \in 1..Len(v) |-> i], 1, Len(v))

\* pandas' nargsort(items, kind="quicksort", ascending=False): the items are
\* reversed, argsorted, and the result is reversed again.
nargsort(items) ==
    LET n == Len(items)
        a == argsort([k \in 1..n |-> items[n + 1 - k]])
        indexer == [k \in 1..n |-> n + 1 - a[k]]
    IN [k \in 1..n |-> indexer[n + 1 - k]]

\* The positions of the greatest of the items.
MaxPositions(items) ==
    {i \in 1..Len(items) : \A n \in 1..Len(items) : items[n] <= items[i]}

\* The position sort_values(by="count", ascending=False) puts first, as a
\* set of the outcomes: the generic build's is computed; the SIMD build's is
\* a position of the greatest count, the one it gave these counts before
\* (order) when it has sorted them already.
sort_values(items, dispatched, order) ==
    IF ~dispatched THEN {nargsort(items)[1]}
    ELSE IF items \in DOMAIN order THEN {order[items]}
    ELSE MaxPositions(items)

\* What the build is known to do once it has put position i first.
Sorted(items, dispatched, order, i) ==
    IF dispatched /\ Cardinality(MaxPositions(items)) > 1
    THEN [c \in (DOMAIN order) \cup {items} |->
             IF c = items THEN i ELSE order[c]]
    ELSE order

\* ...iloc[0]["Country"]
TopCountry(h, i) == h[i].Country

\* .iloc[0] of no rows.
top_raises(h) == IF h = <<>> THEN "IndexError" ELSE "none"

(***************************************************************************)
(* State.  df is the module-level table; observed and simd are what the    *)
(* installed pandas and numpy decide (the default of groupby's observed,   *)
(* whether quicksort is dispatched to the SIMD routine), and simd_order is *)
(* what that routine has put first for the tied counts it has sorted so    *)
(* far; region and the variables after it are the argument and the locals  *)
(* of the last                                                             *)
(* call of update_visuals, raised the exception its data steps ended with  *)
(* ("none" when they all ran).  first records the first call: the table   *)
(* it found, its argument and what it produced, and how far the calls      *)
(* after it went.                                                          *)
(***************************************************************************)
NotCalled == "not called"

RegionInputs == {None, "A", "Unknown", "Z"}

\* What a call hands back: the exception or the seven outputs' data.
Result == <<raised, bins, labels, sb_data, sb_grouped, tree_grouped,
            heatdata, trend, yearwise, actor, top_country>>

Start(tables, builds) ==
    /\ df \in tables
    /\ observed \in BOOLEAN
    /\ simd \in builds
    /\ simd_order = <<>>
    /\ region = NotCalled
    /\ raised = "none"
    /\ dff = <<>>
    /\ max_cas = NaNValue
    /\ bins = <<>>
    /\ labels = <<>>
    /\ sb_data = <<>>
    /\ sb_grouped = <<>>
    /\ tree_grouped = <<>>
    /\ heatdata = <<>>
    /\ trend = <<>>
    /\ yearwise = <<>>
    /\ actor = <<>>
    /\ top_country = None
    /\ first = [called |-> FALSE, table |-> <<>>, region |-> None,
                 result |-> <<>>, seen |-> "none"]

Init == Start({Load(csv) : csv \in SeqsUpTo(CsvLines, MaxRows)}, BOOLEAN)

InitBinner ==
    Start({Load(csv) : csv \in SeqsUpTo(BinnerCsvLines, MaxBinnerRows)},
          {FALSE})

InitRepeat ==
    Start({Load(csv) : csv \in SeqsUpTo(RepeatCsvLines, MaxRepeatRows)},
          BOOLEAN)

\* One call of the callback with the dropdown's value r.
update_visuals(r) ==
    LET f == RegionFilter(df, r)
        sb == Positive(f)
        m == Max(sb)
        b == Bins(m)
        l == Labels(b)
        err == cut_raises(b, l)
        h == HeatData(f)
    IN /\ df' = TableAfterCall(df, r)
       /\ region' = r
       /\ dff' = f
       /\ max_cas' = m
       /\ bins' = b
       /\ labels' = l
       /\ IF err # "none"
          THEN \* line 80 raises: nothing after it runs
               /\ raised' = err
               /\ sb_data' = sb
               /\ sb_grouped' = <<>>
               /\ tree_grouped' = <<>>
               /\ heatdata' = <<>>
               /\ trend' = <<>>
               /\ yearwise' = <<>>
               /\ actor' = <<>>
               /\ top_country' = None
               /\ UNCHANGED simd_order
          ELSE /\ sb_data' = Bucketed(sb, b, l)
               /\ sb_grouped' = SbGrouped(Bucketed(sb, b, l), l, observed)
               /\ tree_grouped' = TreeGrouped(f)
               /\ heatdata' = h
               /\ trend' = Trend(f)
               /\ yearwise' = YearWise(f)
               /\ actor' = Actor(f)
               /\ raised' = top_raises(h)
               /\ IF top_raises(h) # "none"
                  THEN top_country' = None /\ UNCHANGED simd_order
                  ELSE LET counts == [i \in 1..Len(heatdata') |->
                                          heatdata'[i].count]
                       IN \E i \in sort_values(counts, simd, simd_order) :
                             /\ top_country' = TopCountry(heatdata', i)
                             /\ simd_order' =
                                   Sorted(counts, simd, simd_order, i)
       /\ UNCHANGED <<observed, simd>>

InitInsight == Start({Load(csv) : csv \in InsightCsvs}, BOOLEAN)

Next == \E r \in RegionInputs : update_visuals(r) /\ UNCHANGED first

\* The same calls, with the first of them recorded, and whether a call with
\* another argument ("other") and then one with the first argument again
\* ("again") followed it.
NextRepeat ==
    \E r \in RegionInputs :
        /\ update_visuals(r)
        /\ first' =
              IF ~first.called
              THEN [called |-> TRUE, table |-> df, region |-> r,
                    result |-> Result', seen |-> "first"]
              ELSE [first EXCEPT !.seen =
                       IF @ = "first" /\ r # first.region THEN "other"
                       ELSE IF @ = "other" /\ r = first.region THEN "again"
                       ELSE @]

Spec == Init /\ [][Next]_vars

SpecBinner == InitBinner /\ [][Next]_vars

SpecRepeat == InitRepeat /\ [][NextRepeat]_vars

SpecInsight == InitInsight /\ [][NextRepeat]_vars

(***************************************************************************)
(* Properties.                                                             *)
(***************************************************************************)
Called == region # NotCalled

\* The rows of the table the last call's selection lets through.
Selected == {i \in 1..Len(df) : region = None \/ df[i].Region = region}

SelectedPositive == {i \in Selected : df[i].total_casualties > 0}

NoAggregate ==
    /\ sb_grouped = <<>>
    /\ tree_grouped = <<>>
    /\ heatdata = <<>>
    /\ trend = <<>>
    /\ yearwise = <<>>
    /\ actor = <<>>

\* C1: a call whose selection lets no row through (an empty table, or a
\* region no row has) returns without raising, with every aggregate empty
\* and no top country.
C1_EmptySelectionReturns ==
    (Called /\ Selected = {}) =>
        (raised = "none" /\ NoAggregate /\ top_country = None)

\* C2: a call whose selection lets rows through, none of them with
\* casualties above zero, returns without raising, with no bucket and an
\* empty casualty distribution, and a geographic count over all those rows.
C2_ZeroCasualtiesReturn ==
    (Called /\ Selected # {} /\ SelectedPositive = {}) =>
        /\ raised = "none"
        /\ Len(bins) <= 1
        /\ sb_grouped = <<>>
        /\ SumSeq([i \in 1..Len(heatdata) |-> heatdata[i].count])
               = Cardinality(Selected)

\* Bucket i of the last call is (bins[i], bins[i+1]], the first one with its
\* lower boundary.
InBucket(x, i) ==
    (bins[i] < x /\ x <= bins[i + 1]) \/ (i = 1 /\ x = bins[1])

BucketsOf(x) == {i \in 1..(Len(bins) - 1) : InBucket(x, i)}

\* The labelled entries of sb_data for row i of the table.
LabelledAs(i) == {j \in 1..Len(sb_data) :
                     sb_data[j].id = i /\ sb_data[j].casualty_range # NaN}

\* C3: the boundaries of a call are strictly increasing, every selected row
\* with casualties above zero lies in exactly one bucket and carries exactly
\* one label, and a selected row with zero casualties carries none.
C3_BinnerPartition ==
    Called =>
        /\ \A i \in 1..(Len(bins) - 1) : bins[i] < bins[i + 1]
        /\ \A i \in Selected :
              IF df[i].total_casualties > 0
              THEN /\ Cardinality(BucketsOf(df[i].total_casualties)) = 1
                   /\ Cardinality(LabelledAs(i)) = 1
              ELSE \A j \in 1..Len(sb_data) : sb_data[j].id # i

\* A call over a zero row and a positive row, with a closing boundary.
C3_Witness ==
    /\ Called
    /\ raised = "none"
    /\ \E i, j \in Selected : /\ df[i].total_casualties = 0
                              /\ df[j].total_casualties > 0
    /\ Len(bins) >= 4
    /\ Last(bins) = max_cas + 1

\* The selected rows with casualties above zero share one value.
OneValue == Cardinality({df[i].total_casualties : i \in SelectedPositive}) = 1

TheValue == CHOOSE v \in {df[i].total_casualties : i \in SelectedPositive} : TRUE

OccupiedLabels == {sb_grouped[i].casualty_range : i \in
                      {j \in 1..Len(sb_grouped) : sb_grouped[j].count > 0}}

\* C4 as stated: with one distinct positive value the binner has one
\* boundary pair and one label, and the distribution names one label.
C4_OneBoundaryPair ==
    (Called /\ OneValue) =>
        /\ Len(bins) = 2
        /\ Len(labels) = 1
        /\ Cardinality({sb_grouped[i].casualty_range :
                           i \in 1..Len(sb_grouped)}) = 1

\* C4 as amended: with one distinct positive value v pd.cut does not raise,
\* the binner has one boundary pair and label per ladder boundary below v, and
\* exactly one label of the distribution has a positive count: the one every
\* positive row carries ("2-5" for v = 3).
C4_OneOccupiedBucket ==
    (Called /\ OneValue) =>
        /\ raised = "none"
        /\ Len(bins) - 1 =
               Cardinality({i \in 1..Len(Ladder) : Ladder[i] < TheValue})
        /\ Len(labels) = Len(bins) - 1
        /\ Cardinality(OccupiedLabels) = 1
        /\ \A j \in 1..Len(sb_data) :
               sb_data[j].casualty_range \in OccupiedLabels
        /\ (TheValue = 3 => OccupiedLabels = {"2-5"})

\* Two selected rows with the one value 3.
C4_Witness ==
    /\ Called
    /\ OneValue
    /\ TheValue = 3
    /\ Cardinality(SelectedPositive) = 2
    /\ labels = <<"1", "2-5">>

\* The integers the last call's buckets take a label for.
Covered == {x \in (0 - 1)..(max_cas + 2) : cut(x, bins, labels) # NaN}

MaxSelected == CHOOSE m \in {df[i].total_casualties : i \in SelectedPositive} :
                   \A i \in SelectedPositive : df[i].total_casualties <= m

\* C5 as stated: the buckets do not overlap and the integers they cover are
\* exactly 1..max_cas.
C5_CoverExactlyObserved ==
    (Called /\ SelectedPositive # {}) =>
        /\ \A x \in Covered : Cardinality(BucketsOf(x)) = 1
        /\ Covered = 1..MaxSelected

\* C5 as amended: the buckets do not overlap and cover every integer from 0
\* to the last boundary, which is max_cas when max_cas is a ladder boundary
\* and max_cas + 1 otherwise: all of 1..max_cas, and with it 0 and, under a
\* closing boundary, max_cas + 1.
C5_CoverObserved ==
    (Called /\ SelectedPositive # {}) =>
        /\ max_cas = MaxSelected
        /\ \A x \in Covered : Cardinality(BucketsOf(x)) = 1
        /\ Covered = 0..Last(bins)
        /\ Last(bins) = IF max_cas \in Range(Ladder) THEN max_cas
                        ELSE max_cas + 1

\* A call with a closing boundary above the greatest value, 6.
C5_Witness ==
    /\ Called
    /\ SelectedPositive # {}
    /\ max_cas = 6
    /\ bins = <<0, 1, 5, 7>>
    /\ Covered = 0..7

\* The range a label's text names.
NamedLow == <<1, 2, 6, 11, 21, 51, 101, 201, 501, 1001>>
NamedHigh == <<1, 5, 10, 20, 50, 100, 200, 500, 1000>>

InNamedRange(x, lab) ==
    LET n == LabelIndex(lab)
    IN NamedLow[n] <= x /\ (n = Len(LabelList) \/ x <= NamedHigh[n])

\* C10: every row with casualties above zero carries a label whose text
\* names a range holding the row's value, and the label list of a call has
\* one label per boundary pair.
C10_LabelNamesRange ==
    Called =>
        /\ \A j \in 1..Len(sb_data) :
              /\ sb_data[j].casualty_range # NaN
              /\ InNamedRange(sb_data[j].total_casualties,
                              sb_data[j].casualty_range)
        /\ Len(labels) = (IF bins = <<>> THEN 0 ELSE Len(bins) - 1)

\* The countries at the greatest count, and the one that comes first in
\* heatdata.
Leaders == {heatdata[j].Country : j \in
               {i \in 1..Len(heatdata) :
                   \A n \in 1..Len(heatdata) :
                       heatdata[n].count <= heatdata[i].count}}

FirstLeader ==
    heatdata[CHOOSE j \in 1..Len(heatdata) :
                /\ heatdata[j].Country \in Leaders
                /\ \A n \in 1..(j - 1) :
                      heatdata[n].Country \notin Leaders].Country

\* C7: the top country of a non-empty geographic count has the greatest
\* count, among several countries at that count it is the first in the
\* order of the aggregate, and a call with the first call's argument names
\* the country the first call named.
C7_FirstOfTied ==
    (Called /\ heatdata # <<>>) =>
        /\ top_country \in Leaders
        /\ top_country = FirstLeader
        /\ (first.called /\ region = first.region =>
               top_country = first.result[11])

\* C9: the table is the one the first call found, and a call with the first
\* call's argument produces what the first call produced: the same
\* exception or the same boundaries, labels, buckets, aggregates and top
\* country.
C9_Repeatable ==
    Called =>
        /\ df = first.table
        /\ (region = first.region => Result = first.result)

\* The first selection again, after a call whose boundaries differed.
C9_Witness ==
    /\ Called
    /\ first.seen = "again"
    /\ region = first.region
    /\ region = "A"
    /\ bins = <<0, 1>>
    /\ \E i \in 1..Len(df) : df[i].total_casualties = 3

\* The casualties of the table's rows I, added up.
RECURSIVE CasualtiesOf(_)
CasualtiesOf(I) ==
    IF I = {} THEN 0
    ELSE LET i == CHOOSE x \in I : TRUE
         IN df[i].total_casualties + CasualtiesOf(I \ {i})

Keys(agg, key(_)) == {key(agg[i]) : i \in 1..Len(agg)}

\* No key twice, each group's number the number of the selected rows that
\* match its key, and the numbers together the number of included rows.
Exact(agg, key(_), n(_), Included, match(_, _)) ==
    /\ Cardinality(Keys(agg, key)) = Len(agg)
    /\ \A g \in 1..Len(agg) :
          n(agg[g]) = Cardinality({i \in Included : match(df[i], agg[g])})
    /\ SumSeq([g \in 1..Len(agg) |-> n(agg[g])]) = Cardinality(Included)

\* C6: every count of a call is taken over exactly the selected rows its
\* aggregate includes: all of them for the geographic count, the yearly
\* count and the actor profile, those with both taxonomy columns for the
\* taxonomy, those with casualties above zero for the distribution.
C6_CountsExact ==
    Called =>
        /\ Exact(heatdata, LAMBDA a : a.Country, LAMBDA a : a.count, Selected,
                 LAMBDA x, a : x.Country = a.Country)
        /\ Exact(yearwise, LAMBDA a : <<a.year, a.Region>>,
                 LAMBDA a : a.Incident_ID, Selected,
                 LAMBDA x, a : x.date[1] = a.year /\ x.Region = a.Region)
        /\ Exact(actor, LAMBDA a : a.actor, LAMBDA a : a.Incident_ID, Selected,
                 LAMBDA x, a : x.actor = a.actor)
        /\ Exact(tree_grouped, LAMBDA a : <<a.means, a.context>>,
                 LAMBDA a : a.count,
                 {i \in Selected : df[i].means # NaN /\ df[i].context # NaN},
                 LAMBDA x, a : x.means = a.means /\ x.context = a.context)
        /\ Exact(sb_grouped, LAMBDA a : <<a.casualty_range, a.Region>>,
                 LAMBDA a : a.count, SelectedPositive,
                 LAMBDA x, a : /\ InNamedRange(x.total_casualties,
                                               a.casualty_range)
                               /\ x.Region = a.Region)

\* The months of the selected rows, and the rows of a month.
Months == {<<df[i].date[1], df[i].date[2]>> : i \in Selected}

InMonth(d) == {i \in Selected : df[i].date[1] = d[1] /\ df[i].date[2] = d[2]}

\* C8: the monthly trend of a call has one entry for each month with a
\* selected row, dated the first of the month, in strictly ascending order,
\* with the number and the casualties of that month's selected rows.
C8_MonthlyTrend ==
    Called =>
        /\ {trend[i].date : i \in 1..Len(trend)} =
               {<<m[1], m[2], 1>> : m \in Months}
        /\ \A i \in 1..(Len(trend) - 1) :
              \/ trend[i].date[1] < trend[i + 1].date[1]
              \/ /\ trend[i].date[1] = trend[i + 1].date[1]
                 /\ trend[i].date[2] < trend[i + 1].date[2]
        /\ \A i \in 1..Len(trend) :
              /\ trend[i].Incident_ID = Cardinality(InMonth(trend[i].date))
              /\ trend[i].total_casualties = CasualtiesOf(InMonth(trend[i].date))

====
